---- MODULE Spec2Model ----
(***************************************************************************)
(* ECG processing backend: process_ecg.py (the landmark locator, the phase *)
(* interval builder and the two output artifacts) and app.py (the upload   *)
(* handler that saves three files, runs process_ecg.py and cleans up).     *)
(*                                                                         *)
(* Three specifications share this module.                                 *)
(*   SpecPipeline   : process_ecg.py from line 74 on, over concrete        *)
(*                    traces, sampling rates and R-peak lists.             *)
(*   SpecUpload     : one upload_files request and its subprocess, over    *)
(*                    the files of uploads/ and outputs/.                  *)
(*   SpecConcurrent : two upload_files requests interleaved.               *)
(* Sample indices are 0-based as in the source; At(x, i) reads x[i].       *)
(***************************************************************************)
EXTENDS Integers, Sequences, FiniteSets, TLC

(* ---------------- bounds of the model ---------------- *)
MaxLen == 4
MaxAmp == 1
MaxPeaks == 2

\* sampling rates: 3 makes int(0.08*fs) = 0 (no Q, no S window);
\* 13 gives a one-sample Q/S window; 25 gives windows of 2, 5 and 10 samples.
FsValues == {3, 13, 25}

(* ---------------- values ---------------- *)
\* Python's None and a defined value v
None == <<>>
Some(v) == <<v>>
Val(o) == o[1]
IsNotNone(o) == o # None

Max(a, b) == IF a >= b THEN a ELSE b
Min(a, b) == IF a <= b THEN a ELSE b

\* int(num / den) for den > 0: Python's int() truncates toward zero
IntTrunc(num, den) == IF num >= 0 THEN num \div den ELSE -((-num) \div den)

\* int(0.08 * fs)
Int008(f) == IntTrunc(8 * f, 100)
\* int(qp - 0.2 * fs)
IntMinus02(qp, f) == IntTrunc(10 * qp - 2 * f, 10)
\* int(sp + 0.4 * fs)
IntPlus04(sp, f) == IntTrunc(10 * sp + 4 * f, 10)

At(x, i) == x[i + 1]

\* a Python slice bound: negative counts from the end, both clamp to [0, n]
SliceBound(i, n) == IF i < 0 THEN Max(0, n + i) ELSE Min(i, n)
\* x[a:b]
Slice(x, a, b) ==
    LET lo == SliceBound(a, Len(x))
        hi == SliceBound(b, Len(x))
    IN  IF hi > lo THEN SubSeq(x, lo + 1, hi) ELSE <<>>

\* np.argmin / np.argmax: index of the first occurrence of the extreme value.
\* On an empty array numpy raises ValueError (ArgRaises); the value 0 then
\* stands for "no value".
ArgRaises(a) == a = <<>>
ArgMin(a) ==
    IF a = <<>> THEN 0
    ELSE CHOOSE k \in 0..(Len(a) - 1) :
            /\ \A m \in 0..(Len(a) - 1) : At(a, k) <= At(a, m)
            /\ \A m \in 0..(k - 1) : At(a, m) > At(a, k)
ArgMax(a) ==
    IF a = <<>> THEN 0
    ELSE CHOOSE k \in 0..(Len(a) - 1) :
            /\ \A m \in 0..(Len(a) - 1) : At(a, k) >= At(a, m)
            /\ \A m \in 0..(k - 1) : At(a, m) < At(a, k)

\* q[0], the slip of reading the first beat's landmark for every beat
FirstOf(list) == list[1]
\* q[-1]
LastOf(list) == list[Len(list)]

(* ---------------- detect_pqrst: the four windows ---------------- *)
\* the Q window start without max(0, .)
QIdxStartNoClamp(r, f) == r - Int008(f)
QIdxStart(r, f) == Max(0, r - Int008(f))
QIdxEnd(r) == r
SIdxStart(r) == r
SIdxEnd(x, r, f) == Min(Len(x), r + Int008(f))
PIdxStart(qp, f) == Max(0, IntMinus02(qp, f))
\* a P window that takes in the Q sample itself
PIdxEndInclusive(qp) == qp + 1
PIdxEnd(qp) == qp
TIdxStart(sp) == sp
TIdxEnd(x, sp, f) == Min(Len(x), IntPlus04(sp, f))

\* the guard "if end > start" in front of each search
WindowNonEmpty(start, end) == end > start

Window(w, start, end) == [wave |-> w, start |-> start, end |-> end]

QVal(x, r, f) ==
    IF WindowNonEmpty(QIdxStart(r, f), QIdxEnd(r))
    THEN Some(QIdxStart(r, f) + ArgMin(Slice(x, QIdxStart(r, f), QIdxEnd(r))))
    ELSE None
SVal(x, r, f) ==
    IF WindowNonEmpty(SIdxStart(r), SIdxEnd(x, r, f))
    THEN Some(SIdxStart(r) + ArgMin(Slice(x, SIdxStart(r), SIdxEnd(x, r, f))))
    ELSE None
PVal(x, qp, f) ==
    IF IsNotNone(qp) /\ WindowNonEmpty(PIdxStart(Val(qp), f), PIdxEnd(Val(qp)))
    THEN Some(PIdxStart(Val(qp), f)
              + ArgMax(Slice(x, PIdxStart(Val(qp), f), PIdxEnd(Val(qp)))))
    ELSE None
TVal(x, sp, f) ==
    IF IsNotNone(sp) /\ WindowNonEmpty(TIdxStart(Val(sp)), TIdxEnd(x, Val(sp), f))
    THEN Some(TIdxStart(Val(sp))
              + ArgMax(Slice(x, TIdxStart(Val(sp)), TIdxEnd(x, Val(sp), f))))
    ELSE None

\* the windows one loop iteration hands to argmin/argmax
QSearch(x, r, f) ==
    IF WindowNonEmpty(QIdxStart(r, f), QIdxEnd(r))
    THEN {Window("Q", QIdxStart(r, f), QIdxEnd(r))} ELSE {}
SSearch(x, r, f) ==
    IF WindowNonEmpty(SIdxStart(r), SIdxEnd(x, r, f))
    THEN {Window("S", SIdxStart(r), SIdxEnd(x, r, f))} ELSE {}
PSearch(x, qp, f) ==
    IF IsNotNone(qp) /\ WindowNonEmpty(PIdxStart(Val(qp), f), PIdxEnd(Val(qp)))
    THEN {Window("P", PIdxStart(Val(qp), f), PIdxEnd(Val(qp)))} ELSE {}
TSearch(x, sp, f) ==
    IF IsNotNone(sp) /\ WindowNonEmpty(TIdxStart(Val(sp)), TIdxEnd(x, Val(sp), f))
    THEN {Window("T", TIdxStart(Val(sp)), TIdxEnd(x, Val(sp), f))} ELSE {}

(* ---------------- output shaping ---------------- *)
PlotSeconds == 60
\* filtered[:fs * 60]
PlotData(x, f) == Slice(x, 0, f * PlotSeconds)

\* i / fs and the difference of two such times, as <<numerator, denominator>>
TimeOf(i, f) == <<i, f>>
TimeDiff(a, b) == <<a[1] - b[1], a[2]>>

\* [i / fs for i in info[w] if i is not None]
RECURSIVE WaveTimes(_, _)
WaveTimes(marks, f) ==
    IF marks = <<>> THEN <<>>
    ELSE IF IsNotNone(Head(marks))
         THEN <<TimeOf(Val(Head(marks)), f)>> \o WaveTimes(Tail(marks), f)
         ELSE WaveTimes(Tail(marks), f)

Interval(entry, duration, phase) ==
    [entry |-> entry, duration |-> duration, phase |-> phase]

\* the three appends of one iteration of the phases loop
PhasesOfIndex(w, i) ==
    (IF IsNotNone(w.P[i]) /\ IsNotNone(w.Q[i])
     THEN <<Interval(w.P[i], TimeDiff(w.Q[i], w.P[i]), "PQ")>> ELSE <<>>)
    \o
    (IF IsNotNone(w.Q[i]) /\ IsNotNone(w.S[i])
     THEN <<Interval(w.Q[i], TimeDiff(w.S[i], w.Q[i]), "QRS")>> ELSE <<>>)
    \o
    (IF IsNotNone(w.S[i]) /\ IsNotNone(w.T[i])
     THEN <<Interval(w.S[i], TimeDiff(w.T[i], w.S[i]), "ST")>> ELSE <<>>)

\* range(min(len(P), len(Q), len(S), len(T)))
PhaseRange(w) == Min(Min(Len(w.P), Len(w.Q)), Min(Len(w.S), Len(w.T)))

(* ---------------- state ---------------- *)
VARIABLES
    step,        \* position of process_ecg.py
    filtered,    \* the filtered trace (line 74)
    fs,          \* record.fs
    detector,    \* what hp.process does: [raises |-> BOOLEAN, peaklist |-> seq]
    r_peaks,     \* line 85
    p, q, s, t,  \* the four lists of detect_pqrst
    searched,    \* windows handed to argmin/argmax so far
    info,        \* the dict detect_pqrst returns
    plot_out,    \* contents of ecg_plot<id>.json, None before it is written
    waves,       \* line 152
    phases,      \* line 151
    phases_out,  \* contents of ecg_phases<id>.json, None before it is written
    files,       \* uploads/ and outputs/: path -> contents, Absent when no file
    pc,          \* position of each upload_files request
    record_id,   \* str(uuid.uuid4())[:8] of each request
    ext_i,       \* index of the save loop over expected_extensions
    saved_files, \* the list saved_files of each request
    sub,         \* position of each request's process_ecg.py subprocess
    loaded,      \* what wfdb.rdrecord read for the subprocess
    response,    \* what the request returns
    files_to_clean \* the list files_to_clean of the finally block

pvars == <<step, filtered, fs, detector, r_peaks, p, q, s, t, searched, info,
           plot_out, waves, phases, phases_out>>

uvars == <<files, pc, record_id, ext_i, saved_files, sub, loaded, response,
           files_to_clean>>

vars == <<pvars, uvars>>

(* ---------------- files and names ---------------- *)
\* the two requests of the model and the values uuid4()[:8] may take
Requests == {"A", "B"}
RecordIds == {"id1", "id2"}

\* app.py line 25 and process_ecg.py line 24, as token lists
expected_extensions == <<(<<"hea">>), (<<"dat">>), (<<"atr">>)>>
required_exts == <<(<<".", "hea">>), (<<".", "dat">>), (<<".", "atr">>)>>

\* f"{record_id}.{ext}"
FileName(id, ext) == <<id, ".">> \o ext
\* os.path.join(directory, name)
Join(dir, name) == <<dir, "/">> \o name

\* app.py line 41
UploadPath(id, i) == Join("uploads", FileName(id, expected_extensions[i]))
\* process_ecg.py line 26
RequiredPath(id, i) == Join("uploads", FileName(id, required_exts[i]))
\* app.py lines 66-67, 105-106 and process_ecg.py lines 144-145
PlotPath(id) == Join("outputs", <<"ecg_plot", id, ".json">>)
PhasesPath(id) == Join("outputs", <<"ecg_phases", id, ".json">>)

ExtIndex == 1..Len(expected_extensions)
UploadPaths == {UploadPath(id, i) : id \in RecordIds, i \in ExtIndex}
RequiredPaths == {RequiredPath(id, i) : id \in RecordIds, i \in ExtIndex}
OutputPaths == {PlotPath(id) : id \in RecordIds} \cup {PhasesPath(id) : id \in RecordIds}
AllPaths == UploadPaths \cup RequiredPaths \cup OutputPaths

\* file contents: who wrote the file and from what
Absent == <<>>
Foreign == <<"foreign">>
Uploaded(r) == <<"upload", r>>
Partial(r) == <<"partial", r>>
Artifact(kind, r, src) == <<kind, r>> \o src

Exists(f, path) == f[path] # Absent
\* os.remove(path) guarded by os.path.exists(path), for each path of a list
RECURSIVE RemoveAll(_, _)
RemoveAll(f, paths) ==
    IF paths = <<>> THEN f
    ELSE RemoveAll([f EXCEPT ![Head(paths)] = Absent], Tail(paths))

NoResponse == [kind |-> "none", error |-> "", plot |-> Absent, phases |-> Absent]
\* jsonify({'error': ...}), status
ErrorResponse(category) ==
    [kind |-> "error", error |-> category, plot |-> Absent, phases |-> Absent]
\* a success response that leaves the phases out
OkResponsePlotOnly(f1, f2) ==
    [kind |-> "ok", error |-> "", plot |-> f1, phases |-> Absent]
\* jsonify({'plot': f1.read(), 'phases': f2.read()})
OkResponse(f1, f2) ==
    [kind |-> "ok", error |-> "", plot |-> f1, phases |-> f2]

\* the required-input check of process_ecg.py (lines 24-29)
RequiredInputsPresent(f, id) == \A i \in ExtIndex : Exists(f, RequiredPath(id, i))
\* subprocess.run(..., check=True) raises CalledProcessError on a non-zero exit
RunRaises(state) == state # "exit0"
\* app.py line 70
OutputsMissing(f, id) == ~Exists(f, PlotPath(id)) \/ ~Exists(f, PhasesPath(id))

\* no upload request exists (the pipeline is studied alone)
UploadIdle ==
    /\ files = [path \in AllPaths |-> Absent]
    /\ pc = [r \in Requests |-> "off"]
    /\ record_id = [r \in Requests |-> "id1"]
    /\ ext_i = [r \in Requests |-> 1]
    /\ saved_files = [r \in Requests |-> <<>>]
    /\ sub = [r \in Requests |-> "none"]
    /\ loaded = [r \in Requests |-> <<>>]
    /\ response = [r \in Requests |-> NoResponse]
    /\ files_to_clean = [r \in Requests |-> <<>>]

(* ---------------- inputs ---------------- *)
RECURSIVE SortedSeq(_)
SortedSeq(S) ==
    IF S = {} THEN <<>>
    ELSE LET m == CHOOSE a \in S : \A b \in S : a <= b
         IN  <<m>> \o SortedSeq(S \ {m})

Traces == UNION {[1..n -> 0..MaxAmp] : n \in 1..MaxLen}
PeakLists(n) == {SortedSeq(S) : S \in {T \in SUBSET (0..(n - 1)) : Cardinality(T) <= MaxPeaks}}
Detectors(n) ==
    {[raises |-> TRUE, peaklist |-> <<>>]}
    \cup {[raises |-> FALSE, peaklist |-> l] : l \in PeakLists(n)}

NoInfo == [P |-> <<>>, Q |-> <<>>, R |-> <<>>, S |-> <<>>, T |-> <<>>]
NoWaves == [P |-> <<>>, Q |-> <<>>, S |-> <<>>, T |-> <<>>]

InitPipeline ==
    /\ filtered \in Traces
    /\ fs \in FsValues
    /\ detector \in Detectors(Len(filtered))
    /\ step = "detect_r"
    /\ r_peaks = <<>>
    /\ p = <<>> /\ q = <<>> /\ s = <<>> /\ t = <<>>
    /\ searched = {}
    /\ info = NoInfo
    /\ plot_out = None
    /\ waves = NoWaves
    /\ phases = <<>>
    /\ phases_out = None
    /\ UploadIdle

\* no trace is being processed (the upload handler is studied alone)
PipelineIdle ==
    /\ step = "off"
    /\ filtered = <<>>
    /\ fs = 1
    /\ detector = [raises |-> FALSE, peaklist |-> <<>>]
    /\ r_peaks = <<>>
    /\ p = <<>> /\ q = <<>> /\ s = <<>> /\ t = <<>>
    /\ searched = {}
    /\ info = NoInfo
    /\ plot_out = None
    /\ waves = NoWaves
    /\ phases = <<>>
    /\ phases_out = None

(* ---------------- process_ecg.py, lines 77-171 ---------------- *)
\* detect_r: the peak list, or the empty array when hp.process raises
DetectRResult(d) == IF d.raises THEN <<>> ELSE d.peaklist

\* a detector failure treated as a hard error
AfterDetectRAbort(d) == IF d.raises THEN "failed" ELSE "detect_pqrst"
\* where the script goes after detect_r (line 85 to line 140)
AfterDetectR(d) == "detect_pqrst"

DetectR ==
    /\ step = "detect_r"
    /\ r_peaks' = DetectRResult(detector)
    /\ step' = AfterDetectR(detector)
    /\ UNCHANGED <<filtered, fs, detector, p, q, s, t, searched, info,
                   plot_out, waves, phases, phases_out,
                   uvars>>

\* one iteration of "for r in r_peaks"
PqrstStep ==
    /\ step = "detect_pqrst"
    /\ Len(q) < Len(r_peaks)
    /\ LET r_int == r_peaks[Len(q) + 1]
           q1 == Append(q, QVal(filtered, r_int, fs))
           s1 == Append(s, SVal(filtered, r_int, fs))
           qp == LastOf(q1)
           sp == LastOf(s1)
           done == QSearch(filtered, r_int, fs) \cup SSearch(filtered, r_int, fs)
                   \cup PSearch(filtered, qp, fs) \cup TSearch(filtered, sp, fs)
           raises == \E w \in done : ArgRaises(Slice(filtered, w.start, w.end))
       IN  /\ searched' = searched \cup done
           /\ IF raises
              THEN /\ step' = "raised"
                   /\ UNCHANGED <<p, q, s, t>>
              ELSE /\ q' = q1
                   /\ s' = s1
                   /\ p' = Append(p, PVal(filtered, qp, fs))
                   /\ t' = Append(t, TVal(filtered, sp, fs))
                   /\ UNCHANGED step
    /\ UNCHANGED <<filtered, fs, detector, r_peaks, info, plot_out, waves,
                   phases, phases_out, uvars>>

\* the return statement of detect_pqrst
PqrstReturn ==
    /\ step = "detect_pqrst"
    /\ Len(q) = Len(r_peaks)
    /\ info' = [P |-> p, Q |-> q, R |-> r_peaks, S |-> s, T |-> t]
    /\ step' = "write_plot"
    /\ UNCHANGED <<filtered, fs, detector, r_peaks, p, q, s, t, searched,
                   plot_out, waves, phases, phases_out,
                   uvars>>

WritePlot ==
    /\ step = "write_plot"
    /\ plot_out' = Some(PlotData(filtered, fs))
    /\ step' = "build_waves"
    /\ UNCHANGED <<filtered, fs, detector, r_peaks, p, q, s, t, searched, info,
                   waves, phases, phases_out,
                   uvars>>

BuildWaves ==
    /\ step = "build_waves"
    /\ waves' = [P |-> WaveTimes(info.P, fs), Q |-> WaveTimes(info.Q, fs),
                 S |-> WaveTimes(info.S, fs), T |-> WaveTimes(info.T, fs)]
    /\ step' = "phases"
    /\ UNCHANGED <<filtered, fs, detector, r_peaks, p, q, s, t, searched, info,
                   plot_out, phases, phases_out,
                   uvars>>

\* the phases loop (lines 154-167), all iterations
RECURSIVE PhasesUpTo(_, _)
PhasesUpTo(w, n) ==
    IF n = 0 THEN <<>> ELSE PhasesUpTo(w, n - 1) \o PhasesOfIndex(w, n)

BuildPhases ==
    /\ step = "phases"
    /\ phases' = PhasesUpTo(waves, PhaseRange(waves))
    /\ step' = "write_phases"
    /\ UNCHANGED <<filtered, fs, detector, r_peaks, p, q, s, t, searched, info,
                   plot_out, waves, phases_out,
                   uvars>>

WritePhases ==
    /\ step = "write_phases"
    /\ phases_out' = Some(phases)
    /\ step' = "done"
    /\ UNCHANGED <<filtered, fs, detector, r_peaks, p, q, s, t, searched, info,
                   plot_out, waves, phases,
                   uvars>>

NextPipeline ==
    \/ DetectR
    \/ PqrstStep
    \/ PqrstReturn
    \/ WritePlot
    \/ BuildWaves
    \/ BuildPhases
    \/ WritePhases

SpecPipeline == InitPipeline /\ [][NextPipeline]_vars

(* ================= app.py: upload_files ================= *)
(* Faults modelled: an upload missing from the request, file.save raising  *)
(* (before or after it created the destination file), python3 not found,   *)
(* the subprocess exiting non-zero at the input check, in the loader or    *)
(* while writing an artifact. os.remove on an existing file succeeds.      *)
(* uploads/ may hold, from the start, files under the names of             *)
(* RequiredPaths: both directories are created with exist_ok=True and the  *)
(* program itself never creates or deletes a file of such a name.          *)

ForeignFiles(present) ==
    [path \in AllPaths |-> IF path \in present THEN Foreign ELSE Absent]

InitRequests(active, presents) ==
    /\ PipelineIdle
    /\ \E present \in presents : files = ForeignFiles(present)
    /\ pc = [r \in Requests |-> IF r \in active THEN "save" ELSE "off"]
    /\ record_id \in [Requests -> RecordIds]
    /\ \A r \in Requests \ active : record_id[r] = "id1"
    /\ ext_i = [r \in Requests |-> 1]
    /\ saved_files = [r \in Requests |-> <<>>]
    /\ sub = [r \in Requests |-> "none"]
    /\ loaded = [r \in Requests |-> <<>>]
    /\ response = [r \in Requests |-> NoResponse]
    /\ files_to_clean = [r \in Requests |-> <<>>]

\* lines 33-39: file_<ext> is not in the request
SaveMissing(r) ==
    /\ pc[r] = "save"
    /\ files' = RemoveAll(files, saved_files[r])
    /\ response' = [response EXCEPT ![r] = ErrorResponse("Missing file")]
    /\ pc' = [pc EXCEPT ![r] = "returned"]
    /\ UNCHANGED <<record_id, ext_i, saved_files, sub, loaded, files_to_clean,
                   pvars>>

\* lines 41-45: file.save(path) succeeds
SaveOk(r) ==
    /\ pc[r] = "save"
    /\ LET path == UploadPath(record_id[r], ext_i[r])
       IN  /\ files' = [files EXCEPT ![path] = Uploaded(r)]
           /\ saved_files' = [saved_files EXCEPT ![r] = Append(@, path)]
    /\ IF ext_i[r] = Len(expected_extensions)
       THEN /\ pc' = [pc EXCEPT ![r] = "run"]
            /\ UNCHANGED ext_i
       ELSE /\ ext_i' = [ext_i EXCEPT ![r] = @ + 1]
            /\ UNCHANGED pc
    /\ UNCHANGED <<record_id, sub, loaded, response, files_to_clean,
                   pvars>>

\* lines 46-52: file.save(path) raises. The destination was either not
\* created (open failed) or created and left incomplete (the copy failed);
\* path is not in saved_files either way.
SaveRaises(r) ==
    /\ pc[r] = "save"
    /\ \E created \in BOOLEAN :
        LET path == UploadPath(record_id[r], ext_i[r])
            after == IF created THEN [files EXCEPT ![path] = Partial(r)] ELSE files
        IN  files' = RemoveAll(after, saved_files[r])
    /\ response' = [response EXCEPT ![r] = ErrorResponse("Failed to save file")]
    /\ pc' = [pc EXCEPT ![r] = "returned"]
    /\ UNCHANGED <<record_id, ext_i, saved_files, sub, loaded, files_to_clean,
                   pvars>>

\* line 61: subprocess.run starts process_ecg.py <record_id>
RunStart(r) ==
    /\ pc[r] = "run"
    /\ sub' = [sub EXCEPT ![r] = "check"]
    /\ pc' = [pc EXCEPT ![r] = "wait"]
    /\ UNCHANGED <<files, record_id, ext_i, saved_files, loaded, response,
                   files_to_clean,
                   pvars>>

\* lines 90-92: the interpreter or the script is not found
RunNotFound(r) ==
    /\ pc[r] = "run"
    /\ response' = [response EXCEPT ![r] = ErrorResponse("Server configuration error")]
    /\ pc' = [pc EXCEPT ![r] = "finally"]
    /\ UNCHANGED <<files, record_id, ext_i, saved_files, sub, loaded, files_to_clean,
                   pvars>>

(* ---- the subprocess: process_ecg.py at the level of files ---- *)
\* lines 24-29
ProcCheck(r) ==
    /\ sub[r] = "check"
    /\ sub' = [sub EXCEPT ![r] =
                 IF RequiredInputsPresent(files, record_id[r])
                 THEN "load" ELSE "exit_missing"]
    /\ UNCHANGED <<files, pc, record_id, ext_i, saved_files, loaded, response,
                   files_to_clean,
                   pvars>>

\* lines 39-45: wfdb.rdrecord(record_id) reads <record_id>.hea and .dat
ProcLoadOk(r) ==
    /\ sub[r] = "load"
    /\ LET hea == files[Join("uploads", FileName(record_id[r], <<"hea">>))]
           dat == files[Join("uploads", FileName(record_id[r], <<"dat">>))]
       IN  /\ Len(hea) = 2 /\ hea[1] = "upload"
           /\ Len(dat) = 2 /\ dat[1] = "upload"
           /\ loaded' = [loaded EXCEPT ![r] = <<hea[2], dat[2]>>]
    /\ sub' = [sub EXCEPT ![r] = "write_plot"]
    /\ UNCHANGED <<files, pc, record_id, ext_i, saved_files, response,
                   files_to_clean,
                   pvars>>

\* lines 46-48: the record cannot be read
ProcLoadFails(r) ==
    /\ sub[r] = "load"
    /\ sub' = [sub EXCEPT ![r] = "exit1"]
    /\ UNCHANGED <<files, pc, record_id, ext_i, saved_files, loaded, response,
                   files_to_clean,
                   pvars>>

\* lines 147-148
ProcWritePlot(r) ==
    /\ sub[r] = "write_plot"
    /\ files' = [files EXCEPT ![PlotPath(record_id[r])] = Artifact("plot", r, loaded[r])]
    /\ sub' = [sub EXCEPT ![r] = "write_phases"]
    /\ UNCHANGED <<pc, record_id, ext_i, saved_files, loaded, response,
                   files_to_clean,
                   pvars>>

\* lines 169-170
ProcWritePhases(r) ==
    /\ sub[r] = "write_phases"
    /\ files' = [files EXCEPT ![PhasesPath(record_id[r])] = Artifact("phases", r, loaded[r])]
    /\ sub' = [sub EXCEPT ![r] = "exit0"]
    /\ UNCHANGED <<pc, record_id, ext_i, saved_files, loaded, response,
                   files_to_clean,
                   pvars>>

\* an uncaught exception at lines 147-148 or 151-170 (the file cannot be
\* opened or written): the script ends with a non-zero status
ProcWriteFails(r) ==
    /\ sub[r] \in {"write_plot", "write_phases"}
    /\ sub' = [sub EXCEPT ![r] = "exit1"]
    /\ UNCHANGED <<files, pc, record_id, ext_i, saved_files, loaded, response,
                   files_to_clean,
                   pvars>>

(* ---- back in the handler ---- *)
\* line 61 returns or raises CalledProcessError (lines 85-89)
RunEnds(r) ==
    /\ pc[r] = "wait"
    /\ sub[r] \in {"exit0", "exit1", "exit_missing"}
    /\ IF RunRaises(sub[r])
       THEN /\ response' = [response EXCEPT ![r] = ErrorResponse("ECG processing failed")]
            /\ pc' = [pc EXCEPT ![r] = "finally"]
       ELSE /\ pc' = [pc EXCEPT ![r] = "check_outputs"]
            /\ UNCHANGED response
    /\ UNCHANGED <<files, record_id, ext_i, saved_files, sub, loaded, files_to_clean,
                   pvars>>

\* lines 70-72
CheckOutputs(r) ==
    /\ pc[r] = "check_outputs"
    /\ IF OutputsMissing(files, record_id[r])
       THEN /\ response' = [response EXCEPT ![r] =
                               ErrorResponse("Output files not generated")]
            /\ pc' = [pc EXCEPT ![r] = "finally"]
       ELSE /\ pc' = [pc EXCEPT ![r] = "read"]
            /\ UNCHANGED response
    /\ UNCHANGED <<files, record_id, ext_i, saved_files, sub, loaded, files_to_clean,
                   pvars>>

\* lines 75-83; open() of a file that is gone raises (lines 90-92)
ReadOutputs(r) ==
    /\ pc[r] = "read"
    /\ response' = [response EXCEPT ![r] =
                      IF OutputsMissing(files, record_id[r])
                      THEN ErrorResponse("Server configuration error")
                      ELSE OkResponse(files[PlotPath(record_id[r])],
                                      files[PhasesPath(record_id[r])])]
    /\ pc' = [pc EXCEPT ![r] = "finally"]
    /\ UNCHANGED <<files, record_id, ext_i, saved_files, sub, loaded, files_to_clean,
                   pvars>>

\* lines 102-110: the list of the finally block
FinallyList(r) ==
    /\ pc[r] = "finally"
    /\ files_to_clean' = [files_to_clean EXCEPT ![r] =
          saved_files[r]
          \o (IF Exists(files, PlotPath(record_id[r]))
              THEN <<PlotPath(record_id[r])>> ELSE <<>>)
          \o (IF Exists(files, PhasesPath(record_id[r]))
              THEN <<PhasesPath(record_id[r])>> ELSE <<>>)]
    /\ pc' = [pc EXCEPT ![r] = "cleanup"]
    /\ UNCHANGED <<files, record_id, ext_i, saved_files, sub, loaded, response,
                   pvars>>

\* lines 112-116: one iteration of the deletion loop
CleanupStep(r) ==
    /\ pc[r] = "cleanup"
    /\ files_to_clean[r] # <<>>
    /\ files' = RemoveAll(files, <<Head(files_to_clean[r])>>)
    /\ files_to_clean' = [files_to_clean EXCEPT ![r] = Tail(@)]
    /\ UNCHANGED <<pc, record_id, ext_i, saved_files, sub, loaded, response,
                   pvars>>

\* the handler returns its response
Return(r) ==
    /\ pc[r] = "cleanup"
    /\ files_to_clean[r] = <<>>
    /\ pc' = [pc EXCEPT ![r] = "returned"]
    /\ UNCHANGED <<files, record_id, ext_i, saved_files, sub, loaded, response,
                   files_to_clean,
                   pvars>>

NextUpload ==
    \/ \E r \in Requests : SaveMissing(r)
    \/ \E r \in Requests : SaveOk(r)
    \/ \E r \in Requests : SaveRaises(r)
    \/ \E r \in Requests : RunStart(r)
    \/ \E r \in Requests : RunNotFound(r)
    \/ \E r \in Requests : ProcCheck(r)
    \/ \E r \in Requests : ProcLoadOk(r)
    \/ \E r \in Requests : ProcLoadFails(r)
    \/ \E r \in Requests : ProcWritePlot(r)
    \/ \E r \in Requests : ProcWritePhases(r)
    \/ \E r \in Requests : ProcWriteFails(r)
    \/ \E r \in Requests : RunEnds(r)
    \/ \E r \in Requests : CheckOutputs(r)
    \/ \E r \in Requests : ReadOutputs(r)
    \/ \E r \in Requests : FinallyList(r)
    \/ \E r \in Requests : CleanupStep(r)
    \/ \E r \in Requests : Return(r)

\* one request; any files may lie under the names of RequiredPaths
InitUpload == InitRequests({"A"}, SUBSET RequiredPaths)
SpecUpload == InitUpload /\ [][NextUpload]_vars

\* two requests at once; the files process_ecg.py looks for are there for
\* all three extensions of a record id, or for none
RequiredSets == {{RequiredPath(id, i) : id \in ids, i \in ExtIndex} : ids \in SUBSET RecordIds}
InitConcurrent == InitRequests(Requests, RequiredSets)
SpecConcurrent == InitConcurrent /\ [][NextUpload]_vars

(* ================= claims about process_ecg.py ================= *)
PqrstDone == step \in {"write_plot", "build_waves", "phases", "write_phases", "done"}
Beats == 1..Len(r_peaks)

\* the interval the phase builder is to emit for landmarks a, b of one beat
BeatInterval(a, b, phase) ==
    Interval(TimeOf(Val(a), fs), TimeDiff(TimeOf(Val(b), fs), TimeOf(Val(a), fs)), phase)
Emitted(a, b, phase) ==
    \E k \in 1..Len(phases) : phases[k] = BeatInterval(a, b, phase)
CountPhase(phase) == Cardinality({k \in 1..Len(phases) : phases[k].phase = phase})
CountBoth(xs, ys) ==
    Cardinality({b \in Beats : IsNotNone(xs[b]) /\ IsNotNone(ys[b])})

\* C1: for every beat b the written phases hold a PQ (QRS, ST) interval of b
\* iff P and Q (Q and S, S and T) are both defined for b; no interval of a
\* beat with defined endpoints is dropped.
C1_PhaseIffEndpointsDefined ==
    step = "done" =>
        /\ \A b \in Beats :
            /\ (IsNotNone(info.P[b]) /\ IsNotNone(info.Q[b]))
                   => Emitted(info.P[b], info.Q[b], "PQ")
            /\ (IsNotNone(info.Q[b]) /\ IsNotNone(info.S[b]))
                   => Emitted(info.Q[b], info.S[b], "QRS")
            /\ (IsNotNone(info.S[b]) /\ IsNotNone(info.T[b]))
                   => Emitted(info.S[b], info.T[b], "ST")
        /\ CountPhase("PQ") = CountBoth(info.P, info.Q)
        /\ CountPhase("QRS") = CountBoth(info.Q, info.S)
        /\ CountPhase("ST") = CountBoth(info.S, info.T)

\* C2: every interval written is built from two landmarks of one and the
\* same beat.
C2_IntervalsWithinOneBeat ==
    step = "done" =>
        \A k \in 1..Len(phases) : \E b \in Beats :
            \/ /\ phases[k].phase = "PQ"
               /\ IsNotNone(info.P[b]) /\ IsNotNone(info.Q[b])
               /\ phases[k] = BeatInterval(info.P[b], info.Q[b], "PQ")
            \/ /\ phases[k].phase = "QRS"
               /\ IsNotNone(info.Q[b]) /\ IsNotNone(info.S[b])
               /\ phases[k] = BeatInterval(info.Q[b], info.S[b], "QRS")
            \/ /\ phases[k].phase = "ST"
               /\ IsNotNone(info.S[b]) /\ IsNotNone(info.T[b])
               /\ phases[k] = BeatInterval(info.S[b], info.T[b], "ST")

\* a < b (strict) or a <= b, when both are defined
Before(a, b, strict) ==
    (IsNotNone(a) /\ IsNotNone(b)) =>
        IF strict THEN Val(a) < Val(b) ELSE Val(a) <= Val(b)

\* the order of the landmarks of beat i; stStrict says whether S < T or S <= T
LandmarkOrder(i, stStrict) ==
    LET R == Some(r_peaks[i])
    IN  /\ Before(p[i], q[i], TRUE)
        /\ Before(p[i], R, TRUE)
        /\ Before(p[i], s[i], TRUE)
        /\ Before(p[i], t[i], TRUE)
        /\ Before(q[i], R, FALSE)
        /\ Before(q[i], s[i], FALSE)
        /\ Before(q[i], t[i], stStrict)
        /\ Before(R, s[i], FALSE)
        /\ Before(R, t[i], stStrict)
        /\ Before(s[i], t[i], stStrict)

\* C5 (as stated): the landmarks of every beat satisfy P < Q <= R <= S < T
\* for each pair that is defined.
C5_StrictOrder == \A i \in 1..Len(p) : LandmarkOrder(i, TRUE)

\* C5 (amended): the landmarks of every beat satisfy P < Q <= R <= S <= T
\* for each pair that is defined; T may coincide with S.
C5_OrderWithTies == \A i \in 1..Len(p) : LandmarkOrder(i, FALSE)

C5_Witness ==
    /\ step = "done"
    /\ \E i \in Beats :
        /\ IsNotNone(p[i]) /\ IsNotNone(q[i]) /\ IsNotNone(s[i]) /\ IsNotNone(t[i])
        /\ Val(t[i]) = Val(s[i])

\* C7: when the R-peak detector raises, the run does not fail: detect_r
\* yields the empty sequence, the plot artifact is the first
\* min(N, 60*fs) samples of the filtered trace and the phases artifact is
\* the empty list.
C7_DetectorFailureTolerated ==
    detector.raises =>
        /\ step \notin {"failed", "raised"}
        /\ step # "detect_r" => r_peaks = <<>>
        /\ step = "done" =>
            /\ IsNotNone(plot_out) /\ IsNotNone(phases_out)
            /\ Len(Val(plot_out)) = Min(Len(filtered), 60 * fs)
            /\ \A i \in 1..Len(Val(plot_out)) : Val(plot_out)[i] = filtered[i]
            /\ Val(phases_out) = <<>>

C7_Witness ==
    /\ detector.raises
    /\ step = "done"
    /\ IsNotNone(plot_out) /\ IsNotNone(phases_out)

\* C8: detect_pqrst returns one landmark record per input peak, in input
\* order: P, Q, R, S, T all have the length of r_peaks, R[i] = r_peaks[i],
\* and P[i], Q[i], S[i], T[i] are computed from r_peaks[i] alone; undefined
\* entries keep their position.
C8_OneRecordPerPeak ==
    /\ Len(p) = Len(q) /\ Len(s) = Len(q) /\ Len(t) = Len(q)
    /\ PqrstDone =>
        /\ Len(info.P) = Len(r_peaks) /\ Len(info.Q) = Len(r_peaks)
        /\ Len(info.S) = Len(r_peaks) /\ Len(info.T) = Len(r_peaks)
        /\ info.R = r_peaks
        /\ \A i \in Beats :
            /\ info.Q[i] = QVal(filtered, r_peaks[i], fs)
            /\ info.S[i] = SVal(filtered, r_peaks[i], fs)
            /\ info.P[i] = PVal(filtered, QVal(filtered, r_peaks[i], fs), fs)
            /\ info.T[i] = TVal(filtered, SVal(filtered, r_peaks[i], fs), fs)

C8_Witness ==
    /\ step = "done"
    /\ Len(r_peaks) = MaxPeaks
    /\ info.P[1] = None
    /\ \E i \in Beats : IsNotNone(info.P[i])

\* C9: every search of detect_pqrst is made on a window [start, end) with
\* 0 <= start < end <= N, and detect_pqrst never raises.
C9_WindowsWellFormed ==
    /\ step # "raised"
    /\ \A w \in searched :
        /\ 0 <= w.start
        /\ w.start < w.end
        /\ w.end <= Len(filtered)

C9_Witness ==
    /\ step = "done"
    /\ \E i \in Beats : info.Q[i] = None /\ IsNotNone(info.S[i])
    /\ \E w \in searched : w.wave = "T" /\ w.end = Len(filtered)
    /\ \E w \in searched : w.wave = "P" /\ w.start = 0

(* ================= claims about app.py ================= *)
\* the five files of the run of request r
RunPaths(r) ==
    {UploadPath(record_id[r], i) : i \in ExtIndex}
    \cup {PlotPath(record_id[r]), PhasesPath(record_id[r])}

\* C3: once the handler has returned its response, no file of this run
\* remains on disk, whichever way the request ended.
C3_NoFileRemains ==
    \A r \in Requests :
        pc[r] = "returned" => \A path \in RunPaths(r) : ~Exists(files, path)

\* C4: the required-input check of process_ecg.py tests the three names
\* under which upload_files saved the uploads: it ends the run with the
\* missing-file error iff one of uploads/<record_id>.hea|.dat|.atr is absent.
C4_CheckTestsUploadNames ==
    \A r \in Requests :
        (pc[r] = "wait" /\ sub[r] # "check") =>
            (sub[r] = "exit_missing"
                <=> \E i \in ExtIndex : ~Exists(files, UploadPath(record_id[r], i)))

\* C6: a response is all-or-nothing: it carries the plot and the phases
\* artifact written by this request's completed run of process_ecg.py, or
\* it is an error with neither.
C6_AllOrNothing ==
    \A r \in Requests :
        /\ response[r].kind = "ok" =>
            /\ sub[r] = "exit0"
            /\ response[r].plot = Artifact("plot", r, loaded[r])
            /\ response[r].phases = Artifact("phases", r, loaded[r])
        /\ response[r].kind # "ok" =>
            /\ response[r].plot = Absent
            /\ response[r].phases = Absent

\* the subprocess failed after writing the plot file and before writing the
\* phases file, and the handler has chosen its response
C6_Witness ==
    \E r \in Requests :
        /\ pc[r] = "finally"
        /\ sub[r] = "exit1"
        /\ Exists(files, PlotPath(record_id[r]))
        /\ ~Exists(files, PhasesPath(record_id[r]))
        /\ response[r].kind = "error"

\* a request between its first save and the start of its cleanup
InProgress(r) == pc[r] \in {"save", "run", "wait", "check_outputs", "read", "finally"}

\* C10: two requests handled concurrently do not touch each other's files:
\* while a request is in progress its saved uploads hold what it saved, its
\* output files hold what its own subprocess wrote, and a successful
\* response carries the artifacts computed from its own uploads.
C10_RunsAreIsolated ==
    \A r \in Requests :
        /\ InProgress(r) =>
            /\ \A k \in 1..Len(saved_files[r]) : files[saved_files[r][k]] = Uploaded(r)
            /\ \A path \in {PlotPath(record_id[r]), PhasesPath(record_id[r])} :
                  Exists(files, path) => files[path][2] = r
        /\ response[r].kind = "ok" =>
            /\ response[r].plot = Artifact("plot", r, <<r, r>>)
            /\ response[r].phases = Artifact("phases", r, <<r, r>>)

====
